---- MODULE Spec2Model ----
(***************************************************************************)
(* Predis: coin ledger, betting and prediction resolution.                 *)
(*                                                                         *)
(* The state is the database rows of schema.prisma (User.coinBalance,      *)
(* Prediction, PredictionOption, Bet, Transaction) as left by the seed      *)
(* script.  Every API operation is a request that first reads and validates *)
(* (one step) and then runs its prisma.$transaction (a second, atomic       *)
(* step); the values a handler read before its transaction (`prediction`,   *)
(* `currentOdds`) are carried in the request and may be stale when the      *)
(* transaction runs.                                                        *)
(***************************************************************************)
EXTENDS Integers, Sequences, FiniteSets, Bags, TLC

\* ------------------------------------------------------------------ bounds
MaxBets == 3          \* rows of table Bet the model lets exist

\* ------------------------------------------------------- program constants
MaxBetAmount == 10000 \* placeBetSchema: .max(10000)

Users == {"alice", "bob", "charlie"}
Preds == {"prediction1"}               \* the seeded prediction that has a bet
Orders == {0, 1}                       \* option `order` 0 = Yes, 1 = No
OptionIds == Preds \X Orders
Handlers == {"h1", "h2"}               \* requests served at the same time

\* The clock, in days after seeding: before the end date of prediction1, the
\* end date itself, and after it.
Instants == {0, 1, 2}

\* inputs a caller may send
Bettors == {"bob", "charlie"}          \* accounts that place bets
Callers == {"alice", "bob"}            \* the creator and another account
PredInputs == Preds \cup {"unknown"}
OptionInputs == OptionIds \cup {<<"prediction2", 0>>}
Amounts == {-300, 0, 300, 650, 10001}

NoOption == <<"none", 0>>

\* ------------------------------------------------------------------- state
VARIABLES
  coinBalance,    \* User.coinBalance
  prediction,     \* Prediction rows
  option,         \* PredictionOption rows, keyed by <<predictionId, order>>
  bets,           \* Bet rows in creation order (id = index)
  transactions,   \* Transaction rows in creation order
  now,            \* the clock
  req,            \* bag of in-flight requests: what each handler has read so far
  last,           \* the response of the step just taken
  granted         \* coins issued so far: seed balances and creator rewards

vars == <<coinBalance, prediction, option, bets, transactions, now, req, last, granted>>
data == <<coinBalance, prediction, option, bets, transactions>>

\* ----------------------------------------------------------------- helpers
BetIds == 1..Len(bets)
BetsOf(p) == {i \in BetIds : bets[i].predictionId = p}
BetsOn(o) == {i \in BetIds : bets[i].optionId = o}

RECURSIVE SumAmount(_)
SumAmount(S) ==
  IF S = {} THEN 0
  ELSE LET i == CHOOSE j \in S : TRUE IN bets[i].amount + SumAmount(S \ {i})

RECURSIVE SumBalances(_, _)
SumBalances(balance, S) ==
  IF S = {} THEN 0
  ELSE LET u == CHOOSE v \in S : TRUE IN balance[u] + SumBalances(balance, S \ {u})

RECURSIVE SumPayouts(_)
SumPayouts(S) ==
  IF S = {} THEN 0
  ELSE LET i == CHOOSE j \in S : TRUE IN bets[i].payout + SumPayouts(S \ {i})

RECURSIVE SumCoins(_)
SumCoins(S) ==
  IF S = {} THEN 0
  ELSE LET o == CHOOSE x \in S : TRUE IN option[o].totalCoins + SumCoins(S \ {o})

OptionsOf(p) == {o \in OptionIds : o[1] = p}
WithStatus(S, st) == {i \in S : bets[i].status = st}

Request == [pc |-> "none", userId |-> "none", predictionId |-> "none",
         optionId |-> NoOption, amount |-> 0, currentOdds |-> <<1, 1>>,
         totalPool |-> 0]

Response(op, res) == [op |-> op, result |-> res]

\* ------------------------------------------- JavaScript number arithmetic
\* Math.floor(x * (p / w)) on IEEE-754 doubles, computed with integers only.
\* The quotient p / w is rounded to a 53-bit significand; when the exact
\* product x * p / w is an integer N and the quotient was rounded down far
\* enough, the product rounds to the double below N and Math.floor gives N - 1.
MantissaBits == 52

RECURSIVE Normalise(_, _, _)
Normalise(p, w, j) ==                 \* p / w = 2^j * (pn / wn), pn / wn in [1, 2)
  IF p < w THEN Normalise(2 * p, w, j - 1)
  ELSE IF p >= 2 * w THEN Normalise(p, 2 * w, j + 1)
  ELSE <<p, w, j>>

RECURSIVE LongDivision(_, _, _, _)
LongDivision(rem, bit, w, n) ==       \* n more quotient bits: <<remainder, last bit>>
  IF n = 0 THEN <<rem, bit>>
  ELSE IF 2 * rem >= w THEN LongDivision(2 * rem - w, 1, w, n - 1)
  ELSE LongDivision(2 * rem, 0, w, n - 1)

RECURSIVE Pow2(_)
Pow2(n) == IF n <= 0 THEN 1 ELSE 2 * Pow2(n - 1)

RECURSIVE ExponentBelow(_, _, _)
ExponentBelow(n, p, m) ==             \* largest m with 2^m < n (start p = 1, m = -1)
  IF p < n THEN ExponentBelow(n, 2 * p, m + 1) ELSE m

FloorMulQuotient(x, p, w) ==
  IF p = 0 THEN 0
  ELSE IF (x * p) % w # 0 THEN (x * p) \div w
  ELSE LET N == (x * p) \div w
           nz == Normalise(p, w, 0)
           ld == LongDivision(nz[1] - nz[2], 1, nz[2], MantissaBits)
           rem == ld[1]
           roundedDown == rem > 0 /\ (2 * rem < nz[2] \/ (2 * rem = nz[2] /\ ld[2] = 0))
           s == nz[3] + 1 - ExponentBelow(N, 1, -1)
       IN IF roundedDown /\ x * rem * Pow2(s) > nz[2] * Pow2(-s) THEN N - 1 ELSE N

\* ------------------------------------------------------------------- seed
Init ==
  /\ coinBalance = [u \in Users |->
        CASE u = "alice" -> 1500 [] u = "bob" -> 1100 [] OTHER -> 900]
  /\ prediction = [p \in Preds |->
        [creatorId |-> "alice", endDate |-> 1, status |-> "ACTIVE",
         correctOptionId |-> NoOption, totalPool |-> 100, totalBets |-> 1]]
  /\ option = [o \in OptionIds |->
        IF o[2] = 0
        THEN [totalCoins |-> 100, totalBets |-> 1, currentOdds |-> <<1, 1>>]
        ELSE [totalCoins |-> 0, totalBets |-> 0, currentOdds |-> <<5, 2>>]]
  /\ bets = << [userId |-> "bob", predictionId |-> "prediction1",
                optionId |-> <<"prediction1", 0>>, amount |-> 100,
                oddsAtBet |-> <<3, 2>>, status |-> "PENDING", payout |-> 0] >>
  /\ transactions = << [userId |-> "bob", type |-> "BET_PLACED", amount |-> -100,
                        balanceRecorded |-> TRUE,
                        balanceBefore |-> 1200, balanceAfter |-> 1100,
                        betId |-> 1] >>
  /\ now = 0
  /\ req = EmptyBag
  /\ last = Response("seed", "ok")
  /\ granted = 1500 + 1200 + 900

\* ------------------------------------------------------------- placeWager
\* The plain quotient, with no value of its own for an option without coins.
calculateOddsNoFloor(totalPool, optionCoins) == <<totalPool, optionCoins>>

\* calculateOdds: pool / coins on the option, 1.0 when the option is empty;
\* an odds value is kept as the pair <<numerator, denominator>>.
calculateOdds(totalPool, optionCoins) ==
  IF optionCoins > 0 THEN <<totalPool, optionCoins>> ELSE <<1, 1>>

\* The odds shown for the bet being placed: the totals read with the bet added.
OddsForBet(p, o, amount) ==
  calculateOdds(prediction[p].totalPool + amount, option[o].totalCoins + amount)

\* A schema that only asks for a positive amount.
placeBetSchemaNoMax(amount) == amount > 0

\* placeBetSchema: amount is a positive integer of at most 10,000 coins.
placeBetSchema(amount) == amount > 0 /\ amount <= MaxBetAmount

\* validateBet without the balance check.
validateBetWithoutFunds(u, p, o, amount) ==
  IF p \notin Preds THEN "MarketNotFound"
  ELSE IF o \notin OptionIds \/ o[1] # p THEN "InvalidOption"
  ELSE IF prediction[p].status # "ACTIVE" \/ now >= prediction[p].endDate
       THEN "MarketClosed"
  ELSE IF amount <= 0 \/ amount > MaxBetAmount THEN "InvalidAmount"
  ELSE "ok"

\* validateBet that looks at the balance before it looks at the market.
validateBetFundsFirst(u, p, o, amount) ==
  IF p \notin Preds THEN "MarketNotFound"
  ELSE IF o \notin OptionIds \/ o[1] # p THEN "InvalidOption"
  ELSE IF coinBalance[u] < amount THEN "InsufficientFunds"
  ELSE IF prediction[p].status # "ACTIVE" \/ now >= prediction[p].endDate
       THEN "MarketClosed"
  ELSE IF ~placeBetSchema(amount) THEN "InvalidAmount"
  ELSE "ok"

validateBet(u, p, o, amount) ==
  IF p \notin Preds THEN "MarketNotFound"
  ELSE IF o \notin OptionIds \/ o[1] # p THEN "InvalidOption"
  ELSE IF prediction[p].status # "ACTIVE" \/ now >= prediction[p].endDate
       THEN "MarketClosed"
  ELSE IF ~placeBetSchema(amount) THEN "InvalidAmount"
  ELSE IF coinBalance[u] < amount THEN "InsufficientFunds"
  ELSE "ok"

InFlight(pc) == {q \in BagToSet(req) : q.pc = pc}

RECURSIVE Copies(_)
Copies(S) ==
  IF S = {} THEN 0
  ELSE LET q == CHOOSE x \in S : TRUE IN req[q] + Copies(S \ {q})

InFlightBets == Copies(InFlight("placeBet"))

\* A request needs a free handler.
FreeHandler == Copies(BagToSet(req)) < Cardinality(Handlers)
Begin(q) == req (+) SetToBag({q})
End(q) == req (-) SetToBag({q})

\* POST /api/bets, up to the start of the transaction: read, validate, and
\* compute the odds the bet will record.
PlaceBetRequest(u, p, o, amount) ==
  /\ FreeHandler
  /\ LET res == validateBet(u, p, o, amount) IN
       IF res = "ok"
       THEN /\ Len(bets) + InFlightBets < MaxBets
            /\ req' = Begin(
                 [Request EXCEPT !.pc = "placeBet", !.userId = u, !.predictionId = p,
                              !.optionId = o, !.amount = amount,
                              !.totalPool = prediction[p].totalPool,
                              !.currentOdds = OddsForBet(p, o, amount)])
            /\ last' = Response("placeWager", "validated")
       ELSE /\ req' = req
            /\ last' = Response("placeWager", res)
  /\ UNCHANGED <<data, now, granted>>

NewBet(q) ==
  [userId |-> q.userId, predictionId |-> q.predictionId, optionId |-> q.optionId,
   amount |-> q.amount, oddsAtBet |-> q.currentOdds, status |-> "PENDING",
   payout |-> 0]

\* The stake is not taken from the balance.
NoDebit(balance, amount) == balance

\* user.update({ coinBalance: { decrement: betAmount } })
DebitBalance(balance, amount) == balance - amount

\* totalPool written as the pool the handler read plus the stake.
IncrementFromRead(total, readBefore, amount) == readBefore + amount

\* totalCoins set to the stake instead of incremented by it.
SetCoins(total, amount) == amount

\* prediction.update({ totalPool: { increment: betAmount } }): an atomic
\* increment of the row, whatever pool the handler read before
IncrementTotal(total, readBefore, amount) == total + amount

\* predictionOption.update({ totalCoins: { increment: betAmount } })
IncrementCoins(total, amount) == total + amount

\* A BET_PLACED entry written as a credit of the stake.
BetPlacedEntryCredit(q, balanceAfterUpdate, betId) ==
  [userId |-> q.userId, type |-> "BET_PLACED", amount |-> q.amount,
   balanceRecorded |-> TRUE,
   balanceBefore |-> balanceAfterUpdate + q.amount,
   balanceAfter |-> balanceAfterUpdate, betId |-> betId]

BetPlacedEntry(q, balanceAfterUpdate, betId) ==
  [userId |-> q.userId, type |-> "BET_PLACED", amount |-> -q.amount,
   balanceRecorded |-> TRUE,
   balanceBefore |-> balanceAfterUpdate + q.amount,
   balanceAfter |-> balanceAfterUpdate, betId |-> betId]

\* The prisma.$transaction of POST /api/bets.
PlaceBetTx(q) ==
  /\ q \in InFlight("placeBet")
  /\ LET user == DebitBalance(coinBalance[q.userId], q.amount)
         betId == Len(bets) + 1
     IN /\ coinBalance' = [coinBalance EXCEPT ![q.userId] = user]
        /\ bets' = Append(bets, NewBet(q))
        /\ prediction' = [prediction EXCEPT
             ![q.predictionId].totalPool =
                 IncrementTotal(@, q.totalPool, q.amount),
             ![q.predictionId].totalBets = @ + 1]
        /\ option' = [option EXCEPT
             ![q.optionId].totalCoins = IncrementCoins(@, q.amount),
             ![q.optionId].totalBets = @ + 1]
        /\ transactions' = Append(transactions, BetPlacedEntry(q, user, betId))
  /\ req' = End(q)
  /\ last' = Response("placeWager", "ok")
  /\ UNCHANGED <<now, granted>>

\* ---------------------------------------------------------------- resolve
\* The authorization check answers as if every caller were the creator.
AnyCaller(u, p) == TRUE

\* Authorization check: prediction.creatorId !== session.user.id => 403
IsCreator(u, p) == u = prediction[p].creatorId

\* validateResolve that lets the creator resolve a RESOLVED market again.
validateResolveAgain(u, p, o) ==
  IF p \notin Preds THEN "MarketNotFound"
  ELSE IF prediction[p].status \notin {"LOCKED", "RESOLVED"} THEN "MarketNotResolvable"
  ELSE IF ~IsCreator(u, p) THEN "NotAuthorized"
  ELSE IF o \notin OptionIds \/ o[1] # p THEN "InvalidOption"
  ELSE "ok"

validateResolve(u, p, o) ==
  IF p \notin Preds THEN "MarketNotFound"
  ELSE IF prediction[p].status = "RESOLVED" THEN "AlreadyResolved"
  ELSE IF prediction[p].status # "LOCKED" THEN "MarketNotResolvable"
  ELSE IF ~IsCreator(u, p) THEN "NotAuthorized"
  ELSE IF o \notin OptionIds \/ o[1] # p THEN "InvalidOption"
  ELSE "ok"

\* POST /api/predictions/[id]/resolve, up to the start of the transaction:
\* the handler loads `prediction`, authorises and validates.
ResolveRequest(u, p, o) ==
  /\ FreeHandler
  /\ LET res == validateResolve(u, p, o) IN
       IF res = "ok"
       THEN /\ req' = Begin(
                 [Request EXCEPT !.pc = "resolve", !.userId = u, !.predictionId = p,
                              !.optionId = o,
                              !.totalPool = prediction[p].totalPool])
            /\ last' = Response("resolve", "validated")
       ELSE /\ req' = req
            /\ last' = Response("resolve", res)
  /\ UNCHANGED <<data, now, granted>>

\* Payout with Math.ceil in place of Math.floor.
PayoutRoundedUp(amount, totalPool, totalCoins) ==
  (amount * totalPool + totalCoins - 1) \div totalCoins

\* Math.floor(bet.amount * oddsForWinners),
\* oddsForWinners = prediction.totalPool / correctOption.totalCoins
Payout(amount, totalPool, totalCoins) == FloorMulQuotient(amount, totalPool, totalCoins)

\* Math.floor(prediction.totalPool * 0.05).  The double 0.05 lies just above
\* 1/20, so the product never falls below an exact multiple: the floor is the
\* integer quotient for every pool the model reaches.
CreatorReward(totalPool) == (totalPool * 5) \div 100

\* Payout computed from the odds the bet recorded when it was placed.
BetPayoutAtRecordedOdds(i, totalPool, totalCoins) ==
  (bets[i].amount * bets[i].oddsAtBet[1]) \div bets[i].oddsAtBet[2]

\* const payout = Math.floor(bet.amount * oddsForWinners), for bet i
BetPayout(i, totalPool, totalCoins) == Payout(bets[i].amount, totalPool, totalCoins)

RECURSIVE SumPayout(_, _, _)
SumPayout(S, totalPool, totalCoins) ==
  IF S = {} THEN 0
  ELSE LET i == CHOOSE j \in S : TRUE
       IN BetPayout(i, totalPool, totalCoins)
            + SumPayout(S \ {i}, totalPool, totalCoins)

BetWonEntry(i, payout) ==
  [userId |-> bets[i].userId, type |-> "BET_WON", amount |-> payout,
   balanceRecorded |-> FALSE, balanceBefore |-> 0, balanceAfter |-> 0,
   betId |-> i]

RECURSIVE WonEntries(_, _, _, _)
WonEntries(i, winners, totalPool, totalCoins) ==   \* in the order of allBets
  IF i > Len(bets) THEN <<>>
  ELSE (IF i \in winners
        THEN <<BetWonEntry(i, BetPayout(i, totalPool, totalCoins))>>
        ELSE <<>>) \o WonEntries(i + 1, winners, totalPool, totalCoins)

\* A losing bet left as it is.
LeaveLoser(bet) == bet

\* tx.bet.update({ data: { status: 'LOST', resolvedAt } }) of the losers' loop
SettleLoser(bet) == [bet EXCEPT !.status = "LOST"]

\* The prisma.$transaction of resolve.  `prediction` is the row the handler
\* loaded before the transaction; correctOption and the bets are read inside.
ResolveTx(q) ==
  /\ q \in InFlight("resolve")
  /\ LET p == q.predictionId
         allBets == BetsOf(p)
         winningBets == {i \in allBets : bets[i].optionId = q.optionId}
         losingBets == allBets \ winningBets
         totalCoins == option[q.optionId].totalCoins
         creatorReward == CreatorReward(q.totalPool)
         paid(u) == SumPayout({i \in winningBets : bets[i].userId = u},
                              q.totalPool, totalCoins)
     IN /\ prediction' = [prediction EXCEPT ![p].status = "RESOLVED",
                                            ![p].correctOptionId = q.optionId]
        /\ coinBalance' = [u \in Users |->
              coinBalance[u] + paid(u)
                + (IF u = prediction[p].creatorId THEN creatorReward ELSE 0)]
        /\ bets' = [i \in BetIds |->
              IF i \in winningBets
              THEN [bets[i] EXCEPT !.status = "WON",
                      !.payout = BetPayout(i, q.totalPool, totalCoins)]
              ELSE IF i \in losingBets
              THEN SettleLoser(bets[i])
              ELSE bets[i]]
        /\ transactions' = transactions \o WonEntries(1, winningBets, q.totalPool, totalCoins)
        /\ granted' = granted + creatorReward
  /\ option' = option
  /\ req' = End(q)
  /\ last' = Response("resolve", "ok")
  /\ UNCHANGED now

\* The resolution of the 200 response of resolve, from the values the
\* transaction computes: bets counted per winningBets and losingBets, the
\* payouts added up, and the creator's reward.
ResolutionSummary(q) ==
  LET allBets == BetsOf(q.predictionId)
      winningBets == {i \in allBets : bets[i].optionId = q.optionId}
  IN [totalWinners |-> Cardinality(winningBets),
      totalLosers |-> Cardinality(allBets \ winningBets),
      totalPayout |-> SumPayout(winningBets, q.totalPool,
                                option[q.optionId].totalCoins),
      creatorReward |-> CreatorReward(q.totalPool)]

\* ----------------------------------------------------------------- cancel
validateCancel(u, p) ==
  IF p \notin Preds THEN "MarketNotFound"
  ELSE IF prediction[p].status = "RESOLVED" THEN "AlreadyResolved"
  ELSE IF prediction[p].status = "CANCELLED" THEN "AlreadyCancelled"
  ELSE IF ~IsCreator(u, p) THEN "NotAuthorized"
  ELSE "ok"

\* DELETE /api/predictions/[id], up to the start of the transaction.
CancelRequest(u, p) ==
  /\ FreeHandler
  /\ LET res == validateCancel(u, p) IN
       IF res = "ok"
       THEN /\ req' = Begin(
                 [Request EXCEPT !.pc = "cancel", !.userId = u, !.predictionId = p])
            /\ last' = Response("cancel", "validated")
       ELSE /\ req' = req
            /\ last' = Response("cancel", res)
  /\ UNCHANGED <<data, now, granted>>

BetRefundedEntry(i) ==
  [userId |-> bets[i].userId, type |-> "BET_REFUNDED", amount |-> bets[i].amount,
   balanceRecorded |-> FALSE, balanceBefore |-> 0, balanceAfter |-> 0,
   betId |-> i]

RECURSIVE RefundEntries(_, _)
RefundEntries(i, S) ==
  IF i > Len(bets) THEN <<>>
  ELSE (IF i \in S THEN <<BetRefundedEntry(i)>> ELSE <<>>) \o RefundEntries(i + 1, S)

\* Refund credited from the payout column instead of the amount.
RefundOfPayout(u, S) == SumPayouts({i \in S : bets[i].userId = u})

\* for (const bet of bets) user.update({ coinBalance: { increment: bet.amount } }):
\* what the loop adds to the balance of u.
Refund(u, S) == SumAmount({i \in S : bets[i].userId = u})

\* The prisma.$transaction of cancel (Refund Logic).
CancelTx(q) ==
  /\ q \in InFlight("cancel")
  /\ LET p == q.predictionId
         refunded == BetsOf(p)
     IN /\ coinBalance' = [u \in Users |->
              coinBalance[u] + Refund(u, refunded)]
        /\ bets' = [i \in BetIds |->
              IF i \in refunded THEN [bets[i] EXCEPT !.status = "REFUNDED"] ELSE bets[i]]
        /\ transactions' = transactions \o RefundEntries(1, refunded)
        /\ prediction' = [prediction EXCEPT ![p].status = "CANCELLED"]
  /\ req' = End(q)
  /\ last' = Response("cancel", "ok")
  /\ UNCHANGED <<option, now, granted>>

\* ------------------------------------------------------ scheduler and clock
\* A job that finds no prediction to lock.
NeverEnded(p) == FALSE

Ended(p) == prediction[p].endDate < now /\ prediction[p].status = "ACTIVE"

\* The hourly background job: lock every ACTIVE prediction past its end date.
\* The job runs whether or not a prediction has ended.
Tick ==
  /\ prediction' = [p \in Preds |->
        IF Ended(p) THEN [prediction[p] EXCEPT !.status = "LOCKED"] ELSE prediction[p]]
  /\ last' = Response("tick", "ok")
  /\ UNCHANGED <<coinBalance, option, bets, transactions, now, req, granted>>

AdvanceClock ==
  /\ now + 1 \in Instants
  /\ now' = now + 1
  /\ last' = Response("clock", "ok")
  /\ UNCHANGED <<data, req, granted>>

\* ------------------------------------------------------------------- edit
\* An edit that does not look at the bets already placed.
validateEditAnyTime(u, p, endDate) ==
  IF p \notin Preds THEN "MarketNotFound"
  ELSE IF ~IsCreator(u, p) THEN "NotAuthorized"
  ELSE IF endDate <= now THEN "ValidationError"
  ELSE "ok"

\* PATCH /api/predictions/[id]: creator only, only before any bet is placed,
\* and the end date must stay in the future.
validateEdit(u, p, endDate) ==
  IF p \notin Preds THEN "MarketNotFound"
  ELSE IF ~IsCreator(u, p) THEN "NotAuthorized"
  ELSE IF prediction[p].totalBets # 0 THEN "BetsPlaced"
  ELSE IF endDate <= now THEN "ValidationError"
  ELSE "ok"

\* The request body carries question, description, endDate and category, and
\* no options; of these the end date is the one the other operations read.
EditRequest(u, p, endDate) ==
  /\ LET res == validateEdit(u, p, endDate) IN
       /\ prediction' = IF res = "ok"
                        THEN [prediction EXCEPT ![p].endDate = endDate]
                        ELSE prediction
       /\ last' = Response("edit", res)
  /\ UNCHANGED <<coinBalance, option, bets, transactions, now, req, granted>>

\* ------------------------------------------------------------ specification
\* Spec: two handlers run concurrently.  A request that fails validation
\* changes nothing but the response, so Spec leaves such calls out; SpecCalls
\* has them.
Next ==
  \/ \E u \in Bettors, p \in Preds, o \in OptionIds, a \in Amounts :
       /\ validateBet(u, p, o, a) = "ok"
       /\ PlaceBetRequest(u, p, o, a)
  \/ \E q \in BagToSet(req) : PlaceBetTx(q)
  \/ \E u \in Callers, p \in Preds, o \in OptionIds :
       /\ validateResolve(u, p, o) = "ok"
       /\ ResolveRequest(u, p, o)
  \/ \E q \in BagToSet(req) : ResolveTx(q)
  \/ \E u \in Callers, p \in Preds :
       /\ validateCancel(u, p) = "ok"
       /\ CancelRequest(u, p)
  \/ \E q \in BagToSet(req) : CancelTx(q)
  \/ Tick
  \/ AdvanceClock

Spec == Init /\ [][Next]_vars

\* SpecCalls: one request at a time, every call a caller may send, rejected
\* ones included.
NextCalls ==
  \/ \E u \in Bettors, p \in PredInputs, o \in OptionInputs, a \in Amounts :
       req = EmptyBag /\ PlaceBetRequest(u, p, o, a)
  \/ \E q \in BagToSet(req) : PlaceBetTx(q)
  \/ \E u \in Callers, p \in PredInputs, o \in OptionInputs :
       req = EmptyBag /\ ResolveRequest(u, p, o)
  \/ \E q \in BagToSet(req) : ResolveTx(q)
  \/ \E u \in Callers, p \in PredInputs :
       req = EmptyBag /\ CancelRequest(u, p)
  \/ \E q \in BagToSet(req) : CancelTx(q)
  \/ Tick
  \/ AdvanceClock

SpecCalls == Init /\ [][NextCalls]_vars

\* A market as POST /api/predictions, or the first part of the seed, leaves
\* it: no bet placed yet.
InitCreated ==
  /\ coinBalance = [u \in Users |->
        CASE u = "alice" -> 1500 [] u = "bob" -> 1200 [] OTHER -> 900]
  /\ prediction = [p \in Preds |->
        [creatorId |-> "alice", endDate |-> 1, status |-> "ACTIVE",
         correctOptionId |-> NoOption, totalPool |-> 0, totalBets |-> 0]]
  /\ option = [o \in OptionIds |->
        [totalCoins |-> 0, totalBets |-> 0,
         currentOdds |-> IF o[2] = 0 THEN <<3, 2>> ELSE <<5, 2>>]]
  /\ bets = << >>
  /\ transactions = << >>
  /\ now = 0
  /\ req = EmptyBag
  /\ last = Response("create", "ok")
  /\ granted = 1500 + 1200 + 900

\* SpecEdit: one request at a time on a market that starts without bets; every
\* edit a caller may send, refused ones included, and the accepted requests of
\* the other operations.
NextEdit ==
  \/ \E u \in Callers, p \in PredInputs, endDate \in Instants :
       req = EmptyBag /\ EditRequest(u, p, endDate)
  \/ \E u \in Bettors, o \in OptionIds, a \in Amounts :
       /\ req = EmptyBag
       /\ validateBet(u, o[1], o, a) = "ok"
       /\ PlaceBetRequest(u, o[1], o, a)
  \/ \E q \in BagToSet(req) : PlaceBetTx(q)
  \/ \E u \in Callers, o \in OptionIds :
       /\ req = EmptyBag
       /\ validateResolve(u, o[1], o) = "ok"
       /\ ResolveRequest(u, o[1], o)
  \/ \E q \in BagToSet(req) : ResolveTx(q)
  \/ \E u \in Callers, p \in Preds :
       /\ req = EmptyBag
       /\ validateCancel(u, p) = "ok"
       /\ CancelRequest(u, p)
  \/ \E q \in BagToSet(req) : CancelTx(q)
  \/ Tick
  \/ AdvanceClock

SpecEdit == InitCreated /\ [][NextEdit]_vars

\* ================================================================== properties
Terminal(p) == prediction[p].status \in {"RESOLVED", "CANCELLED"}
Committed == last.op = "placeWager" /\ last.result = "ok"
Resolved == last.op = "resolve" /\ last.result = "ok"

\* C1. Conservation: in every reachable state the account balances plus the
\* amounts of the PENDING wagers add up to the coins granted so far (the seed
\* balances and every creator reward).
Conservation ==
  SumBalances(coinBalance, Users) + SumAmount(WithStatus(BetIds, "PENDING")) = granted

\* C2. A resolution never creates coins: what one resolve credits to the
\* accounts (the winners' payouts and the creator reward) is at most the
\* market's pool.
ResolveCreatesNoCoins ==
  [][\A q \in BagToSet(req) :
       ResolveTx(q) =>
         SumBalances(coinBalance', Users) - SumBalances(coinBalance, Users)
           <= prediction[q.predictionId].totalPool]_vars

\* C3. Payout bound: in a resolved market the payouts of the WON wagers add up
\* to at most the market's pool.
PayoutBound ==
  \A p \in Preds :
    prediction[p].status = "RESOLVED" =>
      SumPayouts(WithStatus(BetsOf(p), "WON")) <= prediction[p].totalPool

\* C3 witness: a resolve has just paid two winners.
PayoutBoundWitness ==
  /\ Resolved
  /\ \E p \in Preds :
       /\ prediction[p].status = "RESOLVED"
       /\ Cardinality(WithStatus(BetsOf(p), "WON")) >= 2
       /\ SumPayouts(WithStatus(BetsOf(p), "WON")) > 0

\* C4. No negative balance: every account's balance is >= 0 in every state,
\* also when one account's placeWager calls run concurrently.
NoNegativeBalance == \A u \in Users : coinBalance[u] >= 0

\* C5. Idempotent resolution: resolve called again, with the arguments of the
\* call that resolved the market, fails with AlreadyResolved and changes no
\* balance, wager, ledger entry or market field.
ResolveIdempotent ==
  [][\A p \in Preds :
       (/\ prediction[p].status = "RESOLVED"
        /\ ResolveRequest(prediction[p].creatorId, p, prediction[p].correctOptionId))
       => (/\ last'.result = "AlreadyResolved"
           /\ UNCHANGED <<data, req, granted>>)]_vars

\* C5 witness: the second resolve of a resolved market has just been answered.
ResolveIdempotentWitness ==
  /\ last = Response("resolve", "AlreadyResolved")
  /\ \E p \in Preds :
       /\ prediction[p].status = "RESOLVED"
       /\ WithStatus(BetsOf(p), "WON") # {}

\* C6. Odds consistency: in every state, and so after every committed wager,
\* the coinsOnOption of a market's options add up to the market's pool.
OddsConsistency ==
  \A p \in Preds : SumCoins(OptionsOf(p)) = prediction[p].totalPool

\* C6 witness: a wager has just been committed on an option that was empty.
OddsConsistencyWitness ==
  /\ Committed
  /\ \E o \in OptionIds : o[2] = 1 /\ option[o].totalCoins > 0

ExclusionGate ==
  [][/\ \A p \in Preds :
          /\ Terminal(p)' => WithStatus(BetsOf(p), "PENDING")' = {}
          /\ Terminal(p) => prediction'[p].totalPool <= prediction[p].totalPool
     /\ \A q \in BagToSet(req) :
          ResolveTx(q) => prediction'[q.predictionId].totalPool <= q.totalPool]_vars

\* C9. placeWager with an amount above the account's balance fails and leaves
\* balance, pool, option totals, wagers and ledger unchanged; the failure is
\* InsufficientFunds whenever the market is open and the amount is a valid one.
PassesBeforeFunds(p, o, amount) ==
  /\ p \in Preds
  /\ o \in OptionsOf(p)
  /\ prediction[p].status = "ACTIVE"
  /\ now < prediction[p].endDate
  /\ amount > 0
  /\ amount <= MaxBetAmount

MarketClosedRejected ==
  [][/\ \A u \in Bettors, p \in Preds, o \in OptionIds, a \in Amounts :
          (/\ o[1] = p
           /\ prediction[p].status # "ACTIVE" \/ now >= prediction[p].endDate
           /\ PlaceBetRequest(u, p, o, a))
          => (last'.result = "MarketClosed" /\ UNCHANGED <<data, req, granted>>)
     /\ \A q \in BagToSet(req) :
          PlaceBetTx(q) => /\ prediction[q.predictionId].status = "ACTIVE"
                           /\ now < prediction[q.predictionId].endDate]_vars

\* C11. A successful cancel leaves every wager of the market REFUNDED, credits
\* each account with the sum of the amounts of its wagers on the market,
\* records one BET_REFUNDED entry of that amount per wager, and leaves the
\* market CANCELLED.
CancelRefundsAll ==
  [][\A q \in BagToSet(req) :
       CancelTx(q) =>
         LET p == q.predictionId
             added == (Len(transactions) + 1)..Len(transactions')
         IN /\ prediction'[p].status = "CANCELLED"
            /\ \A i \in BetsOf(p) : /\ bets'[i].status = "REFUNDED"
                                    /\ bets'[i].amount = bets[i].amount
            /\ \A u \in Users :
                 coinBalance'[u] - coinBalance[u]
                   = SumAmount({i \in BetsOf(p) : bets[i].userId = u})
            /\ Cardinality(added) = Cardinality(BetsOf(p))
            /\ \A i \in BetsOf(p) : \E k \in added :
                 /\ transactions'[k].betId = i
                 /\ transactions'[k].type = "BET_REFUNDED"
                 /\ transactions'[k].userId = bets[i].userId
                 /\ transactions'[k].amount = bets[i].amount]_vars

\* C11 witness: a market with wagers of two accounts has just been cancelled.
CancelRefundsAllWitness ==
  /\ last = Response("cancel", "ok")
  /\ \E p \in Preds :
       /\ prediction[p].status = "CANCELLED"
       /\ \E i, j \in BetsOf(p) : bets[i].userId # bets[j].userId
       /\ \A i \in BetsOf(p) : bets[i].status = "REFUNDED"

\* C12. A successful resolve leaves every wager on the winning option WON with
\* payout = floor(amount * pool / coinsOnOption), pool and coinsOnOption being
\* the market's and the winning option's totals when the resolution commits,
\* and credits the wagering account with exactly the payouts of its wagers.
WinnersPaidFloor ==
  [][\A q \in BagToSet(req) :
       ResolveTx(q) =>
         LET p == q.predictionId
             winners == {i \in BetsOf(p) : bets[i].optionId = q.optionId}
         IN /\ \A i \in winners :
                 /\ bets'[i].status = "WON"
                 /\ bets'[i].payout =
                      (bets[i].amount * prediction[p].totalPool)
                         \div option[q.optionId].totalCoins
            /\ \A u \in Users \ {prediction[p].creatorId} :
                 coinBalance'[u] - coinBalance[u]
                   = SumPayouts({i \in winners : bets[i].userId = u})']_vars

ResolveOnlyWhenLocked ==
  [][/\ \A u \in Callers, p \in Preds, o \in OptionInputs :
          (prediction[p].status = "ACTIVE" /\ ResolveRequest(u, p, o))
          => (/\ last' = Response("resolve", "MarketNotResolvable")
              /\ UNCHANGED <<data, req, granted>>)
     /\ \A p \in Preds :
          (prediction'[p].status = "RESOLVED" /\ prediction[p].status # "RESOLVED")
          => prediction[p].status = "LOCKED"]_vars

\* C16. Every change of a market's state is one of ACTIVE->LOCKED,
\* LOCKED->RESOLVED, ACTIVE->CANCELLED, LOCKED->CANCELLED, LOCKED->DISPUTED,
\* DISPUTED->RESOLVED, DISPUTED->CANCELLED.
AllowedTransitions ==
  {<<"ACTIVE", "LOCKED">>, <<"LOCKED", "RESOLVED">>, <<"ACTIVE", "CANCELLED">>,
   <<"LOCKED", "CANCELLED">>, <<"LOCKED", "DISPUTED">>, <<"DISPUTED", "RESOLVED">>,
   <<"DISPUTED", "CANCELLED">>}

OnlyAllowedTransitions ==
  [][\A p \in Preds :
       prediction'[p].status # prediction[p].status
       => <<prediction[p].status, prediction'[p].status>> \in AllowedTransitions]_vars

\* Ledger entries that settle wager i: its payout or its refund.
Settlements(i) ==
  {k \in 1..Len(transactions) :
     /\ transactions[k].betId = i
     /\ transactions[k].type \in {"BET_WON", "BET_REFUNDED"}}

\* C17. RESOLVED and CANCELLED are terminal: cancel on a RESOLVED market,
\* resolve on a CANCELLED market and cancel on a CANCELLED market fail and
\* change nothing, a terminal market keeps its state, and no wager is both
\* paid out and refunded, or refunded twice.
TerminalStatesFinal ==
  [][/\ \A u \in Callers, p \in Preds :
          /\ (Terminal(p) /\ CancelRequest(u, p))
             => (/\ last'.op = "cancel"
                 /\ last'.result \notin {"validated", "ok"}
                 /\ UNCHANGED <<data, req, granted>>)
          /\ \A o \in OptionInputs :
               (prediction[p].status = "CANCELLED" /\ ResolveRequest(u, p, o))
               => (/\ last'.op = "resolve"
                   /\ last'.result \notin {"validated", "ok"}
                   /\ UNCHANGED <<data, req, granted>>)
     /\ \A p \in Preds : Terminal(p) => prediction'[p].status = prediction[p].status
     /\ \A i \in BetIds' : Cardinality(Settlements(i)') <= 1]_vars

\* C18. After tick runs at time now, every market that was ACTIVE with
\* endAt <= now is LOCKED; tick changes no other market and no balance, wager,
\* option total or ledger entry.
TickLocksEnded ==
  [][Tick =>
       /\ \A p \in Preds :
            IF prediction[p].status = "ACTIVE" /\ prediction[p].endDate <= now
            THEN prediction'[p] = [prediction[p] EXCEPT !.status = "LOCKED"]
            ELSE prediction'[p] = prediction[p]
       /\ UNCHANGED <<coinBalance, option, bets, transactions, granted>>]_vars

\* ----------------------------------------------------------------- fairness
\* The background job keeps running, time keeps passing, and a transaction
\* that a handler has started is carried through.  Nothing obliges an account
\* to send a request.
Fairness ==
  /\ WF_vars(Tick)
  /\ WF_vars(AdvanceClock)
  /\ WF_vars(\E q \in BagToSet(req) : PlaceBetTx(q))
  /\ WF_vars(\E q \in BagToSet(req) : ResolveTx(q))
  /\ WF_vars(\E q \in BagToSet(req) : CancelTx(q))

FairSpec == SpecCalls /\ Fairness

\* C19. Every market that is ACTIVE with endAt <= now is eventually LOCKED
\* (or CANCELLED), given that the lock job keeps being run.
EndedEventuallyLocked ==
  \A p \in Preds :
    (prediction[p].status = "ACTIVE" /\ prediction[p].endDate <= now)
      ~> (prediction[p].status \in {"LOCKED", "CANCELLED"})

\* C19 witness: the lock job has just locked a market that had ended.
EndedEventuallyLockedWitness ==
  /\ last = Response("tick", "ok")
  /\ \E p \in Preds : prediction[p].status = "LOCKED" /\ prediction[p].endDate <= now

PlaceBetFrame ==
  [][\A q \in InFlight("placeBet") :
       PlaceBetTx(q) =>
         /\ coinBalance'[q.userId] = coinBalance[q.userId] - q.amount
         /\ \A u \in Users \ {q.userId} : coinBalance'[u] = coinBalance[u]
         /\ prediction'[q.predictionId].totalPool
              = prediction[q.predictionId].totalPool + q.amount
         /\ prediction'[q.predictionId].totalBets
              = prediction[q.predictionId].totalBets + 1
         /\ prediction'[q.predictionId].status = prediction[q.predictionId].status
         /\ \A p \in Preds \ {q.predictionId} : prediction'[p] = prediction[p]
         /\ option'[q.optionId].totalCoins = option[q.optionId].totalCoins + q.amount
         /\ option'[q.optionId].totalBets = option[q.optionId].totalBets + 1
         /\ \A o \in OptionIds \ {q.optionId} : option'[o] = option[o]
         /\ Len(bets') = Len(bets) + 1
         /\ \A i \in BetIds : bets'[i] = bets[i]
         /\ LET bet == bets'[Len(bets')] IN
              /\ bet.status = "PENDING"
              /\ bet.userId = q.userId
              /\ bet.optionId = q.optionId
              /\ bet.amount = q.amount]_vars

\* A bet placed after the seeded one has been committed.
PlaceBetFrameWitness ==
  /\ last = Response("placeWager", "ok")
  /\ Len(bets) >= 2
  /\ bets[Len(bets)].status = "PENDING"
  /\ SumCoins(OptionsOf("prediction1")) > 100

NoHalfSettledMarket ==
  \A p \in Preds :
    ~ /\ \E i \in BetsOf(p) : bets[i].status = "PENDING"
      /\ \E j \in BetsOf(p) : bets[j].status \in {"WON", "LOST", "REFUNDED"}

\* The sum of the amount fields of an account's first n ledger entries.
RECURSIVE LedgerSum(_, _)
LedgerSum(u, n) ==
  IF n = 0 THEN 0
  ELSE LedgerSum(u, n - 1)
         + (IF transactions[n].userId = u THEN transactions[n].amount ELSE 0)

\* C24. Ledger replay: in every state and for every account, the amounts of
\* the account's ledger entries add up to the account's balance.
LedgerReplay ==
  \A u \in Users : LedgerSum(u, Len(transactions)) = coinBalance[u]

\* The committed bets that a request repeats: POST /api/bets carries
\* { predictionId, optionId, amount } and the session's user, nothing else,
\* so a retry is a request equal to the first one in these fields.
RetriedBets(q) ==
  {i \in BetIds : /\ bets[i].userId = q.userId
                  /\ bets[i].optionId = q.optionId
                  /\ bets[i].amount = q.amount}

\* C25. A retry of an already committed placeWager debits the account only
\* once: it adds no second bet and no second BET_PLACED entry, and leaves the
\* balance as the first call left it.
RetryDebitsOnce ==
  [][\A q \in InFlight("placeBet") :
       (RetriedBets(q) # {} /\ PlaceBetTx(q))
       => UNCHANGED <<coinBalance, bets, transactions>>]_vars

\* The bets an account already has on an option.
BetsOfOn(u, o) == {i \in BetsOn(o) : bets[i].userId = u}

\* C26. Duplicate wager policy: a placeWager that passes every other
\* precondition is refused with DuplicateWager, changing nothing, when the
\* account already has a wager on that option, and is accepted when the
\* account's wagers on the market are all on other options.
DuplicateWagerRejected ==
  [][last'.op = "placeWager" =>
     \A u \in Bettors, o \in OptionIds, a \in Amounts :
       (/\ PassesBeforeFunds(o[1], o, a)
        /\ a <= coinBalance[u]
        /\ PlaceBetRequest(u, o[1], o, a))
       => IF BetsOfOn(u, o) # {}
          THEN last'.result = "DuplicateWager" /\ UNCHANGED <<data, req, granted>>
          ELSE last'.result = "validated"]_vars

\* The pools and option totals the odds function is applied to: those of the
\* current state, with a bet of any allowed size added, and the empty ones.
PoolInputs ==
  {0} \cup {prediction[p].totalPool + a : p \in Preds, a \in {0} \cup {x \in Amounts : placeBetSchema(x)}}
CoinInputs ==
  {0} \cup {option[o].totalCoins + a : o \in OptionIds, a \in {0} \cup {x \in Amounts : placeBetSchema(x)}}

StoredOddsRecomputed ==
  [][\A q \in InFlight("placeBet") :
       PlaceBetTx(q) =>
         \A o \in OptionsOf(q.predictionId) :
           LET odds == option'[o].currentOdds
               totalPool == prediction'[q.predictionId].totalPool
               optionCoins == option'[o].totalCoins
           IN /\ odds[2] > 0
              /\ IF optionCoins > 0
                 THEN odds[1] * optionCoins = totalPool * odds[2]
                 ELSE odds[1] = odds[2]]_vars

\* The errors of placeWager in the order of their checks.
ErrorOrder ==
  <<"MarketNotFound", "InvalidOption", "MarketClosed", "InvalidAmount",
    "InsufficientFunds">>

\* The preconditions, by position in ErrorOrder, that a call does not meet.
Failing(u, p, o, a) ==
  {k \in 1..5 :
     \/ k = 1 /\ p \notin Preds
     \/ k = 2 /\ (o \notin OptionIds \/ o[1] # p)
     \/ k = 3 /\ p \in Preds
              /\ (prediction[p].status # "ACTIVE" \/ now >= prediction[p].endDate)
     \/ k = 4 /\ (a <= 0 \/ a > MaxBetAmount)
     \/ k = 5 /\ a > coinBalance[u]}

LosersSettled ==
  [][\A q \in InFlight("resolve") :
       ResolveTx(q) =>
         LET p == q.predictionId
             losers == {i \in BetsOf(p) : bets[i].optionId # q.optionId}
             added == {n \in 1..Len(transactions') : n > Len(transactions)}
         IN /\ \A i \in losers : bets'[i].status = "LOST" /\ bets'[i].payout = 0
            /\ \A n \in added : transactions'[n].betId \notin losers
            /\ \A u \in Users \ {prediction[p].creatorId} :
                 (\A i \in BetsOf(p) : bets[i].userId = u => i \in losers)
                 => coinBalance'[u] = coinBalance[u]]_vars

\* C31. Every ledger entry records the balance before and after it, with
\* balanceAfter = balanceBefore + amount, whatever its type; and the entries
\* appended by a step end, for each account, on the account's new balance.
LedgerArithmetic ==
  [][/\ \A k \in 1..Len(transactions') :
          /\ transactions'[k].balanceRecorded
          /\ transactions'[k].balanceAfter
               = transactions'[k].balanceBefore + transactions'[k].amount
     /\ \A u \in Users :
          LET added == {k \in 1..Len(transactions') :
                          k > Len(transactions) /\ transactions'[k].userId = u}
          IN added # {} =>
               transactions'[CHOOSE k \in added : \A j \in added : j <= k].balanceAfter
                 = coinBalance'[u]]_vars

\* Ledger entries that reference wager i.
EntriesOf(i) == {k \in 1..Len(transactions) : transactions[k].betId = i}

\* C32. Transaction.betId is unique: at most one ledger entry references a
\* given wager, also after the wager's market has been resolved or cancelled.
BetIdUnique ==
  \A i \in BetIds : Cardinality(EntriesOf(i)) <= 1

\* C33. A wager changes status only from PENDING and only in the resolve or
\* cancel of its market; once WON, LOST or REFUNDED its status and payout
\* never change again; and no wager is ever removed.
WagerSettledOnce ==
  [][/\ Len(bets') >= Len(bets)
     /\ \A i \in BetIds :
          /\ bets'[i].status # bets[i].status
             => /\ bets[i].status = "PENDING"
                /\ last' \in {Response("resolve", "ok"), Response("cancel", "ok")}
                /\ Terminal(bets[i].predictionId)'
          /\ bets[i].status # "PENDING"
             => /\ bets'[i].status = bets[i].status
                /\ bets'[i].payout = bets[i].payout]_vars

\* The payouts recorded in the bet table b on the bets of S, added up.
RECURSIVE SumPayoutIn(_, _)
SumPayoutIn(b, S) ==
  IF S = {} THEN 0
  ELSE LET i == CHOOSE j \in S : TRUE IN b[i].payout + SumPayoutIn(b, S \ {i})

\* C34. The summary returned by resolve agrees with the state the resolve
\* produced: winners + losers is the market's bet count, totalPayout is the
\* sum of the payouts of the market's WON bets, and totalPayout +
\* creatorReward does not exceed the pool.
SummaryConsistent ==
  [][\A q \in InFlight("resolve") :
       ResolveTx(q) =>
         LET p == q.predictionId
             summary == ResolutionSummary(q)
         IN /\ summary.totalWinners + summary.totalLosers = prediction'[p].totalBets
            /\ summary.totalPayout
                 = SumPayoutIn(bets', {i \in BetsOf(p) : bets'[i].status = "WON"})
            /\ summary.totalPayout + summary.creatorReward
                 <= prediction'[p].totalPool]_vars

ResolveWithoutWinners ==
  [][\A q \in InFlight("resolve") :
       (option[q.optionId].totalCoins = 0 /\ ResolveTx(q))
       => LET p == q.predictionId IN
            /\ last' = Response("resolve", "ok")
            /\ prediction'[p].status = "RESOLVED"
            /\ prediction'[p].correctOptionId = q.optionId
            /\ \A i \in BetsOf(p) : bets'[i].status = "LOST"
            /\ \A u \in Users \ {prediction[p].creatorId} :
                 coinBalance'[u] = coinBalance[u]
            /\ transactions' = transactions]_vars

\* A market with bets has just been resolved with an option nobody bet on.
ResolveWithoutWinnersWitness ==
  /\ Resolved
  /\ \E p \in Preds :
       /\ prediction[p].status = "RESOLVED"
       /\ option[prediction[p].correctOptionId].totalCoins = 0
       /\ prediction[p].totalPool > 0
       /\ \E i \in BetsOf(p) : bets[i].status = "LOST"

\* An odds value, kept as <<numerator, denominator>>, of at least 1.
AtLeastOne(odds) == odds[2] > 0 /\ odds[1] >= odds[2]

\* C37. A winning bet never pays less than its stake, and every odds value
\* recorded or returned (oddsAtBet, the odds computed for a bet in flight, the
\* options' currentOdds) is at least 1.
WinnerGetsStakeBack ==
  /\ \A i \in BetIds : bets[i].status = "WON" => bets[i].payout >= bets[i].amount
  /\ \A i \in BetIds : AtLeastOne(bets[i].oddsAtBet)
  /\ \A q \in InFlight("placeBet") : AtLeastOne(q.currentOdds)
  /\ \A o \in OptionIds : AtLeastOne(option[o].currentOdds)

\* The BET_PLACED entries of the ledger that reference wager i.
PlacedEntries(i) ==
  {k \in 1..Len(transactions) :
     transactions[k].type = "BET_PLACED" /\ transactions[k].betId = i}

\* C38. Bets and their debits correspond one to one: every bet has exactly
\* one BET_PLACED entry, of amount -bet.amount on the bettor's account, every
\* BET_PLACED entry references an existing bet, and a market's totalBets is
\* the number of its bets.
BetsMatchDebits ==
  /\ \A i \in BetIds :
       /\ Cardinality(PlacedEntries(i)) = 1
       /\ \A k \in PlacedEntries(i) :
            /\ transactions[k].amount = -bets[i].amount
            /\ transactions[k].userId = bets[i].userId
  /\ \A k \in 1..Len(transactions) :
       transactions[k].type = "BET_PLACED" => transactions[k].betId \in BetIds
  /\ \A p \in Preds : prediction[p].totalBets = Cardinality(BetsOf(p))

\* Bets of both bettors are committed while another request is between its
\* validation and its transaction.
BetsMatchDebitsWitness ==
  /\ Len(bets) >= 3
  /\ \E i, j \in BetIds : bets[i].userId # bets[j].userId
  /\ req # EmptyBag
  /\ \E p \in Preds : prediction[p].totalBets >= 3

\* The positions of an account's ledger entries, in creation order.
EntriesOfUser(u) == {k \in 1..Len(transactions) : transactions[k].userId = u}

\* C39. The ledger entries of an account form an unbroken chain: taken in
\* creation order, each entry's balanceBefore is the balanceAfter of the
\* account's previous entry.
LedgerChain ==
  \A u \in Users :
    \A k, l \in EntriesOfUser(u) :
      (k < l /\ \A m \in EntriesOfUser(u) : ~(k < m /\ m < l))
      => /\ transactions[k].balanceRecorded
         /\ transactions[l].balanceRecorded
         /\ transactions[l].balanceBefore = transactions[k].balanceAfter

====
